---- MODULE Spec2Model ----
(***************************************************************************)
(* GeneticExtractor (src/gendis/genetic.py): the evolutionary search       *)
(* engine and its top-k diversity archive, as a state machine of one fit   *)
(* run.  Reals are modelled exactly: a coverage factor is a reduced        *)
(* fraction <<num, den>>, coverage_alpha is the fraction <<p, q>>.         *)
(***************************************************************************)
EXTENDS Integers, Sequences, FiniteSets, TLC

\* ---------------------------------------------------------------- bounds
\* number of training instances, len(self.X)
NInst == 2
\* population_size
PopSize == 2
\* largest k (archive holds k+1 entries)
MaxK == 1
\* largest wait
MaxWait == 1
\* iterations
MaxIter == 3
\* max_shaps
MaxShaps == 2
\* identity tokens handed out in one run (uuid4 is unbounded)
MaxUuid == 4
\* crossover and mutation draws that succeed in one run
MaxDraws == 1
\* n_jobs of an engine that evaluates in a worker pool
NJobs == 2

\* shapelets an init or mutation operator can draw
ShapeletIds == {1, 2}
\* values the fitness protocol can return
FitValues == {1, 2}
\* coverage_alpha, a fraction in (0, 1]
Alphas == {<<1, 2>>, <<1, 1>>}

Instances == 1..NInst
\* subgroup masks of valid results: the instances the shapelet set selects
Subgroups == (SUBSET Instances) \ {{}}

\* ---------------------------------------------------------------- helpers
RECURSIVE GCD(_, _)
GCD(a, b) == IF b = 0 THEN a ELSE GCD(b, a % b)

\* a fraction in lowest terms, so that equal reals are equal values
Frac(n, d) == LET g == GCD(n, d) IN <<n \div g, d \div g>>

RECURSIVE Pow(_, _)
Pow(b, e) == IF e = 0 THEN 1 ELSE b * Pow(b, e - 1)

RECURSIVE SumOver(_, _)
SumOver(S, f) ==
    IF S = {} THEN 0
    ELSE LET x == CHOOSE y \in S : TRUE
         IN f[x] + SumOver(S \ {x}, f)

SetMax(S) == CHOOSE x \in S : \A y \in S : y <= x

One == <<1, 1>>
\* coverage_weight of an individual no rebuild has touched
NoWeight == <<0, 1>>

\* a * b for an integer a and a fraction b
Scale(a, b) == Frac(a * b[1], b[2])
\* a > b for fractions with positive denominators
FracGT(a, b) == a[1] * b[2] > b[1] * a[2]

\* fitness.values of an individual: <<>> while invalid, <<v>> once evaluated
FitnessValid(ind) == Len(ind.fitness) = 1
FitnessOf(ind) == ind.fitness[1]

\* ------------------------------------------------- top-k archive rebuild
\* np.ones(len(self.X))
Ones == [i \in Instances |-> 1]

\* coverage[subgroup] += 1
UpdateCoverage(subgroup, coverage) ==
    [i \in Instances |-> IF i \in subgroup THEN coverage[i] + 1 ELSE coverage[i]]

\* weights = alpha ** coverage; sum(weights[subgroup]) / (|subgroup| * alpha)
CoverageFactor(alpha, coverage, subgroup) ==
    LET M == SetMax({coverage[i] : i \in subgroup})
        w == [i \in Instances |-> Pow(alpha[1], coverage[i]) * Pow(alpha[2], M - coverage[i])]
    IN Frac(alpha[2] * SumOver(subgroup, w),
            Pow(alpha[2], M) * Cardinality(subgroup) * alpha[1])

\* max(pop_star, key=fitness): index of the first maximum
MaxFitnessIndex(objs) ==
    CHOOSE i \in 1..Len(objs) :
        /\ \A j \in 1..Len(objs) : FitnessOf(objs[j]) <= FitnessOf(objs[i])
        /\ \A j \in 1..(i - 1) : FitnessOf(objs[j]) < FitnessOf(objs[i])

\* np.argmax(weighted_scores): position in rest of the first maximum of
\* fitness * coverage_weight
ArgMax(objs, rest) ==
    LET score(p) == Scale(FitnessOf(objs[rest[p]]), objs[rest[p]].coverage_weight)
    IN CHOOSE p \in 1..Len(rest) :
        /\ \A r \in 1..Len(rest) : ~FracGT(score(r), score(p))
        /\ \A r \in 1..(p - 1) : FracGT(score(p), score(r))

\* list.pop(p) / np.delete(arr, p)
RemoveAt(s, p) == [i \in 1..(Len(s) - 1) |-> IF i < p THEN s[i] ELSE s[i + 1]]

\* the inner while of one round: pop the best-scored candidates until one
\* carries a uuid that is not in new_top_k_ids or pop_star is empty.
\* st = [rest, best]: pop_star as indices into objs, and the last popped one
RECURSIVE PickNew(_, _, _)
PickNew(objs, ids, st) ==
    IF st.rest = <<>> THEN st
    ELSE LET p == ArgMax(objs, st.rest)
             nxt == [rest |-> RemoveAt(st.rest, p), best |-> st.rest[p]]
         IN IF objs[st.rest[p]].uuid \notin ids THEN nxt
            ELSE PickNew(objs, ids, nxt)

\* for ind in pop_star: ind.coverage_weight = self._coverage_factor(...)
Reweigh(objs, rest, alpha, coverage) ==
    LET inRest == {rest[p] : p \in 1..Len(rest)}
    IN [i \in 1..Len(objs) |->
          IF i \in inRest
          THEN [objs[i] EXCEPT !.coverage_weight =
                    CoverageFactor(alpha, coverage, objs[i].subgroup)]
          ELSE objs[i]]

\* the outer while: rounds more passes.  st = [objs, rest, best, new_top_k,
\* ids, coverage]; new_top_k holds indices into objs (the list holds the
\* pool's own objects, not copies)
RECURSIVE Rounds(_, _, _)
Rounds(st, alpha, rounds) ==
    IF rounds = 0 THEN st
    ELSE LET cov == UpdateCoverage(st.objs[st.best].subgroup, st.coverage)
             objs == Reweigh(st.objs, st.rest, alpha, cov)
             pick == PickNew(objs, st.ids, [rest |-> st.rest, best |-> st.best])
         IN Rounds([objs |-> objs,
                    rest |-> pick.rest,
                    best |-> pick.best,
                    new_top_k |-> Append(st.new_top_k, pick.best),
                    ids |-> st.ids \cup {objs[pick.best].uuid},
                    coverage |-> cov],
                   alpha, rounds - 1)

\* best = max(pop_star, ...); best.coverage_weight = 1.0
ChampionWeight == One

\* pop_star -> the state after the k rounds
RebuildState(pop_star, k, alpha) ==
    LET b == MaxFitnessIndex(pop_star)
        objs == [pop_star EXCEPT ![b].coverage_weight = ChampionWeight]
    IN Rounds([objs |-> objs,
               rest |-> [i \in 1..Len(objs) |-> i],
               best |-> b,
               new_top_k |-> <<b>>,
               ids |-> {objs[b].uuid},
               coverage |-> Ones],
              alpha, k)

\* self.top_k = list(map(clone, new_top_k)) and the final coverage
UpdateTopK(pop_star, k, alpha) ==
    LET st == RebuildState(pop_star, k, alpha)
    IN [top_k |-> [j \in 1..Len(st.new_top_k) |-> st.objs[st.new_top_k[j]]],
        coverage |-> st.coverage]

\* ------------------------------------------------------------- individuals
\* the shapelet sets an individual can hold
RECURSIVE SeqsUpTo(_)
SeqsUpTo(n) ==
    IF n = 0 THEN {<<>>}
    ELSE LET shorter == SeqsUpTo(n - 1)
         IN shorter \cup {Append(s, x) : s \in {t \in shorter : Len(t) = n - 1}, x \in ShapeletIds}

\* ShapeletIndividual(...): a new individual, fitness not yet evaluated
NewIndividual(shaps, uuid) ==
    [shaps |-> shaps, uuid |-> uuid, fitness |-> <<>>, subgroup |-> {},
     info |-> <<>>, coverage_weight |-> NoWeight]

\* n_shapelets = 1 in _create_individual
InitShapelets == 1

\* a faulty variant: the init operator is asked for no shapelet at all
CreateIndividualEmpty == {<<>>}

\* _create_individual: init_op(X, n_shapelets=1, ...): the shapelet sets a
\* new individual can start with
CreateIndividual == {t \in SeqsUpTo(InitShapelets) : Len(t) = InitShapelets}

\* ShapeletIndividual.clone: a deep copy that keeps uuid, fitness, subgroup,
\* info and coverage_weight
Clone(ind) == ind

\* ShapeletIndividual.reset: fitness invalidated, identity reassigned
Reset(ind, uuid) == [ind EXCEPT !.uuid = uuid, !.fitness = <<>>]

\* ShapeletIndividual.pop_uuid: identity reassigned after a shrink
PopUuid(ind, uuid) == [ind EXCEPT !.uuid = uuid]

\* remove_shapelet(ind, toolbox, remove_last=True): drops the last shapelet,
\* never the only one
RemoveLast(shaps) == IF Len(shaps) > 1 THEN SubSeq(shaps, 1, Len(shaps) - 1) ELSE shaps

\* ------------------------------------------------------------- operators
\* mut_ops: add_shapelet, remove_shapelet, replace_shapelet, smooth_shapelet.
\* The shapelet sets one mutation can leave behind
MutOutcomes(shaps) ==
    LET n == Len(shaps)
        add == IF n < MaxShaps THEN {Append(shaps, x) : x \in ShapeletIds} ELSE {shaps}
        remove == IF n > 1 THEN {RemoveAt(shaps, p) : p \in 1..n} ELSE {shaps}
        replace == {[shaps EXCEPT ![p] = x] : p \in 1..n, x \in ShapeletIds}
        smooth == {[shaps EXCEPT ![p] = x] : p \in 1..n, x \in ShapeletIds}
    IN add \cup remove \cup replace \cup smooth

Truncate(s) == IF Len(s) > MaxShaps THEN SubSeq(s, 1, MaxShaps) ELSE s

\* cx_ops: crossover_AND, crossover_uniform.  The pairs of shapelet sets one
\* crossover can leave behind
CxOutcomes(a, b) ==
    LET m == IF Len(a) < Len(b) THEN Len(a) ELSE Len(b)
        swap(s, t, mask) == [p \in 1..Len(s) |-> IF p \in mask THEN t[p] ELSE s[p]]
        uniform == {<<swap(a, b, mask), swap(b, a, mask)>> : mask \in SUBSET (1..m)}
        and == {<<Truncate(a \o b), Truncate(b \o a)>>}
    IN uniform \cup and

\* ------------------------------------------------------ fitness protocol
\* fitness(D, y, shaps) -> {valid, value, subgroup, info}
InvalidResult(shaps) == [valid |-> FALSE, value |-> 0, subgroup |-> {}, info |-> shaps]

Results(shaps) ==
    {[valid |-> TRUE, value |-> v, subgroup |-> g, info |-> shaps] :
        v \in FitValues, g \in Subgroups} \cup {InvalidResult(shaps)}

VARIABLES
    pc,                 \* where fit stands
    k, wait, coverage_alpha, iterations,    \* hyper-parameters of __init__
    max_shaps,          \* hyper-parameter max_shaps, given by the caller
    n_jobs,             \* hyper-parameter n_jobs: 1, or the size of the worker pool
    tasks,              \* the pool.map call of this generation, one task per invalid offspring
    min_length_series,  \* self._min_length_series of the last fit call, 0 before
    cache,              \* self.cache: <<>> before it exists, else <<cached shapelets>>
    out,                \* outcome of the last transform or get_subgroups call
    pop, offspring,     \* population and offspring buffer
    invalid_ind,        \* offspring (by position) awaiting evaluation
    idx,                \* position of the for loop over zip(..., fitnesses)
    fit,                \* the loop variable fit: <<>> or <<result>>
    memo,               \* answers the fitness protocol has given, by shapelet set
    it, best, last_top_k_change,
    top_k,              \* <<>> stands for None
    top_k_coverage,     \* <<>> stands for np.array([])
    history,
    is_fitted,
    nextUuid,           \* the next fresh identity token
    draws,              \* crossovers and mutations applied so far
    shrinks,            \* shrink steps of the repair loop on the current individual
    startLen,           \* shapelets the current individual had when its repair began
    unchanged           \* completed generations in a row that left top_k_coverage as it was

vars == <<pc, k, wait, coverage_alpha, iterations, max_shaps, n_jobs, tasks, min_length_series,
          cache, out, pop, offspring, invalid_ind,
          idx, fit, memo, it, best, last_top_k_change, top_k, top_k_coverage,
          history, is_fitted, nextUuid, draws, shrinks, startLen, unchanged>>

params == <<k, wait, coverage_alpha, iterations, max_shaps, n_jobs>>

\* what only the entry points of the engine write
call == <<min_length_series, out>>

\* no transform or get_subgroups call has returned or raised yet
NoCall == [op |-> "none", return_positions |-> FALSE, standardize |-> FALSE,
           shapelets |-> <<>>, result |-> "none", error |-> "", cols |-> <<>>]

\* float('-inf'): below every fitness value
NegInf == -1

\* one more pass of a repair loop, counted up to MaxShaps + 1
Bump(n) == IF n <= MaxShaps THEN n + 1 ELSE n

\* the shapelets of a shapelet set
Range(s) == {s[i] : i \in 1..Len(s)}

\* calculate_shapelet_dist_matrix(X, shaps, ..., cache=c): the cache after the
\* call holds the distances of every shapelet of the set; None stays None
Cached(c, shaps) == IF c = <<>> THEN <<>> ELSE <<c[1] \cup Range(shaps)>>

\* toolbox.evaluate on a deterministic protocol: the answer already given for
\* this shapelet set, or any answer for a set not seen before
EvalResults(shaps) ==
    IF shaps \in DOMAIN memo THEN {memo[shaps]} ELSE Results(shaps)

Remember(shaps, r) == IF shaps \in DOMAIN memo THEN memo ELSE memo @@ (shaps :> r)

\* __init__: the attributes of an engine that was just constructed
Constructed ==
    /\ pc = "constructed"
    /\ tasks = <<>>
    /\ min_length_series = 0
    /\ cache = <<>>
    /\ out = NoCall
    /\ pop = <<>> /\ offspring = <<>> /\ invalid_ind = <<>>
    /\ idx = 0 /\ fit = <<>>
    /\ memo = <<>>
    /\ it = 0
    /\ best = [it |-> 0, score |-> NegInf, shapelets |-> <<>>]
    /\ last_top_k_change = 0
    /\ top_k = <<>>
    /\ top_k_coverage = <<>>
    /\ history = <<>>
    /\ is_fitted = FALSE
    /\ nextUuid = 1
    /\ draws = 0
    /\ shrinks = 0 /\ startLen = 0
    /\ unchanged = 0

\* __init__, over the hyper-parameters of the search
Init ==
    /\ k \in 0..MaxK
    /\ wait \in 0..MaxWait
    /\ coverage_alpha \in Alphas
    /\ iterations \in {0, MaxIter}
    /\ max_shaps = MaxShaps
    /\ n_jobs = 1
    /\ Constructed

\* __init__, over max_shaps and the stopping parameters, for an archive of
\* one entry
ApiInit ==
    /\ k = 0
    /\ wait \in 0..MaxWait
    /\ coverage_alpha = One
    /\ iterations \in {0, MaxIter}
    /\ max_shaps \in 1..MaxShaps
    /\ n_jobs = 1
    /\ Constructed

\* __init__ of an engine that is fitted more than once, for an archive of
\* one entry
RefitInit ==
    /\ k = 0
    /\ wait = MaxWait
    /\ coverage_alpha = One
    /\ iterations = MaxIter
    /\ max_shaps = MaxShaps
    /\ n_jobs = 1
    /\ Constructed

\* __init__ with a worker pool, for an archive of one entry
PoolInit ==
    /\ k = 0
    /\ wait = MaxWait
    /\ coverage_alpha = One
    /\ iterations = MaxIter
    /\ max_shaps = MaxShaps
    /\ n_jobs = NJobs
    /\ Constructed

\* lengths of the shortest training series a caller can hand to fit
SeriesLengths == {4, 5}

\* a faulty variant: a shortest series of length 5 is refused as well
MinLengthAboveFive(n) == n > 5

\* the negation of "if self._min_length_series <= 4: raise Exception(...)"
MinLengthOK(n) == n > 4

\* fit, up to pop = toolbox.population(n=self.population_size); a shortest
\* series that is too short raises right after self._min_length_series is
\* set.  it, best and last_top_k_change are set further down (BeginLoop);
\* top_k, top_k_coverage and is_fitted are not written by fit before its end
FitCall ==
    /\ \E n \in SeriesLengths :
          /\ min_length_series' = n
          /\ IF MinLengthOK(n)
             THEN /\ \E p \in [1..PopSize -> CreateIndividual] :
                       pop' = [i \in 1..PopSize |-> NewIndividual(p[i], i)]
                  /\ nextUuid' = PopSize + 1
                  /\ cache' = <<{}>>
                  /\ history' = <<>>
                  /\ idx' = 1 /\ fit' = <<>>
                  /\ pc' = "init_eval"
             ELSE /\ pc' = "input_error"
                  /\ UNCHANGED <<pop, nextUuid, cache, history, idx, fit>>
    /\ out' = NoCall
    /\ UNCHANGED <<params, tasks, draws, offspring, invalid_ind, memo, it, best, last_top_k_change,
                   top_k, top_k_coverage, is_fitted, shrinks, startLen, unchanged>>

\* fit called on an engine that is not fitted
FitStart ==
    /\ pc \in {"constructed", "input_error", "raised"}
    /\ FitCall

\* fit called again on an engine that a fit call has left fitted
Refit ==
    /\ pc = "fitted"
    /\ FitCall

\* a faulty variant: only the fitness value is written back
WriteBackFitnessOnly(ind, r) == [ind EXCEPT !.fitness = <<r.value>>]

\* ind.fitness.values = fit["value"]; ind.subgroup = ...; ind.info = ...
WriteBack(ind, r) ==
    [ind EXCEPT !.fitness = <<r.value>>, !.subgroup = r.subgroup, !.info = r.info]

\* one pass of "for ind, fit in zip(pop, fitnesses)" whose result is valid at
\* once (the individual is written back), or the entry into its repair loop
InitEvaluate ==
    /\ pc = "init_eval" /\ idx <= Len(pop) /\ fit = <<>>
    /\ cache' = Cached(cache, pop[idx].shaps)
    /\ \E r \in EvalResults(pop[idx].shaps) :
          /\ memo' = Remember(pop[idx].shaps, r)
          /\ IF r.valid
             THEN /\ pop' = [pop EXCEPT ![idx] = WriteBack(@, r)]
                  /\ idx' = idx + 1
                  /\ shrinks' = 0 /\ startLen' = Len(pop[idx].shaps)
                  /\ UNCHANGED fit
             ELSE /\ fit' = <<r>>
                  /\ shrinks' = 0 /\ startLen' = Len(pop[idx].shaps)
                  /\ UNCHANGED <<pop, idx>>
    /\ UNCHANGED <<pc, params, tasks, call, draws, offspring, invalid_ind, it, best, last_top_k_change,
                   top_k, top_k_coverage, history, is_fitted, nextUuid, unchanged>>

\* while not fit["valid"]: remove_shapelet(ind, remove_last=True);
\* fit = toolbox.evaluate(ind) -- one pass, and the write-back once it is valid
InitRepair ==
    /\ pc = "init_eval" /\ fit # <<>> /\ ~fit[1].valid
    /\ LET shaps == RemoveLast(pop[idx].shaps)
           shrunk == [pop[idx] EXCEPT !.shaps = shaps]
       IN \E r \in EvalResults(shaps) :
             /\ memo' = Remember(shaps, r)
             /\ cache' = Cached(cache, shaps)
             /\ IF r.valid
                THEN /\ pop' = [pop EXCEPT ![idx] = WriteBack(shrunk, r)]
                     /\ idx' = idx + 1 /\ fit' = <<>>
                     /\ shrinks' = Bump(shrinks) /\ UNCHANGED startLen
                ELSE /\ pop' = [pop EXCEPT ![idx] = shrunk]
                     /\ fit' = <<r>>
                     /\ shrinks' = Bump(shrinks)
                     /\ UNCHANGED <<idx, startLen>>
    /\ UNCHANGED <<pc, params, tasks, call, draws, offspring, invalid_ind, it, best, last_top_k_change,
                   top_k, top_k_coverage, history, is_fitted, nextUuid, unchanged>>

\* self.it = 1; self.best = {...}; self.last_top_k_change = 0
BeginLoop ==
    /\ pc = "init_eval" /\ idx > Len(pop)
    /\ it' = 1
    /\ best' = [it |-> 1, score |-> NegInf, shapelets |-> <<>>]
    /\ last_top_k_change' = 0
    /\ pc' = "loop"
    /\ shrinks' = 0 /\ startLen' = 0
    /\ UNCHANGED <<params, tasks, call, cache, draws, pop, offspring, invalid_ind, idx, fit, memo,
                   top_k, top_k_coverage, history, is_fitted, nextUuid, unchanged>>

\* ------------------------------------------------------- generation loop
\* a faulty variant: the early-stopping comparison is not strict
EarlyStoppingCheckGE == it - last_top_k_change >= wait

\* _early_stopping_check
EarlyStoppingCheck == it - last_top_k_change > wait

\* a faulty variant: the children of a crossover are not reset
RECURSIVE CrossPairsNoReset(_, _, _)
CrossPairsNoReset(st, cx, j) ==
    IF 2 * j > Len(st.off) THEN st
    ELSE IF cx[j] = <<>> THEN CrossPairsNoReset(st, cx, j + 1)
    ELSE LET off == [st.off EXCEPT ![2 * j - 1] = [@ EXCEPT !.shaps = cx[j][1]],
                                   ![2 * j] = [@ EXCEPT !.shaps = cx[j][2]]]
         IN CrossPairsNoReset([off |-> off, next |-> st.next, draws |-> st.draws + 1], cx, j + 1)

\* _cross_individuals on the pairs zip(offspring[::2], offspring[1::2]), from
\* pair j on.  cx[j] is <<>> (no crossover drawn) or the pair of shapelet sets
\* the operator leaves; st = [off, next, draws]
RECURSIVE CrossPairs(_, _, _)
CrossPairs(st, cx, j) ==
    IF 2 * j > Len(st.off) THEN st
    ELSE IF cx[j] = <<>> THEN CrossPairs(st, cx, j + 1)
    ELSE LET a == 2 * j - 1
             b == 2 * j
             off == [st.off EXCEPT
                        ![a] = Reset([@ EXCEPT !.shaps = cx[j][1]], st.next),
                        ![b] = Reset([@ EXCEPT !.shaps = cx[j][2]], st.next + 1)]
         IN CrossPairs([off |-> off, next |-> st.next + 2, draws |-> st.draws + 1], cx, j + 1)

\* a faulty variant: a mutated offspring is not reset
RECURSIVE MutateAllNoReset(_, _, _)
MutateAllNoReset(st, mu, i) ==
    IF i > Len(st.off) THEN st
    ELSE IF mu[i] = <<>> THEN MutateAllNoReset(st, mu, i + 1)
    ELSE LET off == [st.off EXCEPT ![i] = [@ EXCEPT !.shaps = mu[i][1]]]
         IN MutateAllNoReset([off |-> off, next |-> st.next, draws |-> st.draws + 1], mu, i + 1)

\* _mutate_individual on every offspring, from position i on.  mu[i] is <<>>
\* (no mutation drawn) or <<the shapelet set the operator leaves>>
RECURSIVE MutateAll(_, _, _)
MutateAll(st, mu, i) ==
    IF i > Len(st.off) THEN st
    ELSE IF mu[i] = <<>> THEN MutateAll(st, mu, i + 1)
    ELSE LET off == [st.off EXCEPT ![i] = Reset([@ EXCEPT !.shaps = mu[i][1]], st.next)]
         IN MutateAll([off |-> off, next |-> st.next + 1, draws |-> st.draws + 1], mu, i + 1)

\* invalid_ind = [ind for ind in offspring if not ind.fitness.valid]
RECURSIVE InvalidInd(_, _)
InvalidInd(off, i) ==
    IF i > Len(off) THEN <<>>
    ELSE IF FitnessValid(off[i]) THEN InvalidInd(off, i + 1)
    ELSE <<i>> \o InvalidInd(off, i + 1)

\* what the random draws of the crossover step can decide: for every pair,
\* no crossover or one outcome of an operator
CxChoices(off) ==
    LET pairs == 1..(Len(off) \div 2)
        outcomes(j) == CxOutcomes(off[2 * j - 1].shaps, off[2 * j].shaps)
    IN {cx \in [pairs -> {<<>>} \cup UNION {outcomes(j) : j \in pairs}] :
           \A j \in pairs : cx[j] = <<>> \/ cx[j] \in outcomes(j)}

\* what the random draws of the mutation step can decide
MuChoices(off) ==
    LET all == UNION {MutOutcomes(off[i].shaps) : i \in 1..Len(off)}
    IN {mu \in [1..Len(off) -> {<<>>} \cup {<<s>> : s \in all}] :
           \A i \in 1..Len(off) : mu[i] = <<>> \/ mu[i][1] \in MutOutcomes(off[i].shaps)}

\* pool.map(toolbox.evaluate, invalid_ind) as it is called: one task per
\* invalid offspring, none taken by a worker yet
Submitted(inv) == [p \in 1..Len(inv) |-> [state |-> "queued", result |-> <<>>]]

\* one pass of the while loop, up to the evaluation of the offspring (with a
\* pool: up to the call of pool.map)
Vary ==
    /\ pc = "loop" /\ it <= iterations /\ ~EarlyStoppingCheck
    /\ LET clones == [i \in 1..Len(pop) |-> Clone(pop[i])]
       IN \E cx \in CxChoices(clones) :
            LET crossed == CrossPairs([off |-> clones, next |-> nextUuid, draws |-> draws], cx, 1)
            IN /\ crossed.draws <= MaxDraws /\ crossed.next <= MaxUuid + 1
               /\ \E mu \in MuChoices(crossed.off) :
                    LET mutated == MutateAll(crossed, mu, 1)
                    IN /\ mutated.draws <= MaxDraws /\ mutated.next <= MaxUuid + 1
                       /\ offspring' = mutated.off
                       /\ nextUuid' = mutated.next
                       /\ draws' = mutated.draws
                       /\ invalid_ind' = InvalidInd(mutated.off, 1)
    /\ idx' = 1 /\ fit' = <<>>
    /\ tasks' = IF n_jobs > 1 THEN Submitted(invalid_ind') ELSE <<>>
    /\ pc' = IF n_jobs > 1 THEN "map" ELSE "eval"
    /\ UNCHANGED <<params, call, cache, pop, memo, it, best, last_top_k_change, top_k,
                   top_k_coverage, history, is_fitted, shrinks, startLen, unchanged>>

\* the tasks a worker is evaluating
Running == {p \in 1..Len(tasks) : tasks[p].state = "running"}

\* a worker of the pool takes the next task of the queue
PoolTake ==
    /\ pc = "map"
    /\ Cardinality(Running) < n_jobs
    /\ \E p \in 1..Len(tasks) :
          /\ tasks[p].state = "queued"
          /\ \A q \in 1..(p - 1) : tasks[q].state # "queued"
          /\ tasks' = [tasks EXCEPT ![p].state = "running"]
    /\ UNCHANGED <<pc, params, call, cache, draws, pop, offspring, invalid_ind, idx, fit, memo,
                   it, best, last_top_k_change, top_k, top_k_coverage, history, is_fitted,
                   nextUuid, shrinks, startLen, unchanged>>

\* a faulty variant: a result is stored in the order in which the workers
\* finish, not at the position of its task
DeliverInCompletionOrder(ts, p, r) ==
    LET q == CHOOSE i \in 1..Len(ts) :
                 /\ ts[i].result = <<>>
                 /\ \A j \in 1..(i - 1) : ts[j].result # <<>>
    IN [[ts EXCEPT ![p].state = "done"] EXCEPT ![q].result = <<r>>]

\* pool.map keeps the order of its input: the result of task p is element p
\* of the list it returns
Deliver(ts, p, r) == [ts EXCEPT ![p] = [state |-> "done", result |-> <<r>>]]

\* a worker finishes toolbox.evaluate on its copy of the individual and sends
\* the result back; it works on its own copy of the engine, so self.cache of
\* the calling process is not written
PoolReturn ==
    /\ pc = "map"
    /\ \E p \in Running :
          LET shaps == offspring[invalid_ind[p]].shaps
          IN \E r \in EvalResults(shaps) :
                /\ tasks' = Deliver(tasks, p, r)
                /\ memo' = Remember(shaps, r)
    /\ UNCHANGED <<pc, params, call, cache, draws, pop, offspring, invalid_ind, idx, fit,
                   it, best, last_top_k_change, top_k, top_k_coverage, history, is_fitted,
                   nextUuid, shrinks, startLen, unchanged>>

\* pool.map returns once every task is done
PoolJoin ==
    /\ pc = "map"
    /\ \A p \in 1..Len(tasks) : tasks[p].state = "done"
    /\ pc' = "eval"
    /\ UNCHANGED <<params, tasks, call, cache, draws, pop, offspring, invalid_ind, idx, fit, memo,
                   it, best, last_top_k_change, top_k, top_k_coverage, history, is_fitted,
                   nextUuid, shrinks, startLen, unchanged>>

\* element i of fitnesses: with the built-in map the evaluation runs when the
\* for loop asks for it, with a pool it is the result pool.map returned
Fitnesses(i) ==
    IF n_jobs > 1 THEN {tasks[i].result[1]}
    ELSE EvalResults(offspring[invalid_ind[i]].shaps)

\* one pass of "for ind, fit in zip(invalid_ind, fitnesses)" whose result is
\* valid at once, or the entry into its repair loop
Evaluate ==
    /\ pc = "eval" /\ idx <= Len(invalid_ind) /\ fit = <<>>
    /\ LET o == invalid_ind[idx]
       IN \E r \in Fitnesses(idx) :
             /\ memo' = Remember(offspring[o].shaps, r)
             /\ cache' = IF n_jobs > 1 THEN cache ELSE Cached(cache, offspring[o].shaps)
             /\ IF r.valid
                THEN /\ offspring' = [offspring EXCEPT ![o] = WriteBack(@, r)]
                     /\ idx' = idx + 1
                     /\ shrinks' = 0 /\ startLen' = Len(offspring[o].shaps)
                     /\ UNCHANGED fit
                ELSE /\ fit' = <<r>>
                     /\ shrinks' = 0 /\ startLen' = Len(offspring[o].shaps)
                     /\ UNCHANGED <<offspring, idx>>
    /\ UNCHANGED <<pc, params, tasks, call, draws, pop, invalid_ind, it, best, last_top_k_change, top_k,
                   top_k_coverage, history, is_fitted, nextUuid, unchanged>>

\* while not fit["valid"]: remove_shapelet(ind, remove_last=True);
\* ind.pop_uuid(); fit = toolbox.evaluate(ind) -- one pass, and the write-back
\* once it is valid
Repair ==
    /\ pc = "eval" /\ fit # <<>> /\ ~fit[1].valid
    /\ nextUuid <= MaxUuid
    /\ LET o == invalid_ind[idx]
           shaps == RemoveLast(offspring[o].shaps)
           shrunk == PopUuid([offspring[o] EXCEPT !.shaps = shaps], nextUuid)
       IN \E r \in EvalResults(shaps) :
             /\ memo' = Remember(shaps, r)
             /\ cache' = Cached(cache, shaps)
             /\ IF r.valid
                THEN /\ offspring' = [offspring EXCEPT ![o] = WriteBack(shrunk, r)]
                     /\ idx' = idx + 1 /\ fit' = <<>>
                     /\ shrinks' = Bump(shrinks) /\ UNCHANGED startLen
                ELSE /\ offspring' = [offspring EXCEPT ![o] = shrunk]
                     /\ fit' = <<r>>
                     /\ shrinks' = Bump(shrinks)
                     /\ UNCHANGED <<idx, startLen>>
    /\ nextUuid' = nextUuid + 1
    /\ UNCHANGED <<pc, params, tasks, call, draws, pop, invalid_ind, it, best, last_top_k_change, top_k,
                   top_k_coverage, history, is_fitted, unchanged>>

\* tools.selTournament(offspring, n, tournsize=2), one slot: the fitter of two
\* aspirants drawn with replacement (the first on a tie)
Tournament(off, a, b) == IF FitnessOf(off[b]) > FitnessOf(off[a]) THEN b ELSE a

\* the offspring a slot of the tournament selection can keep
Winners(off) == {Tournament(off, a, b) : a, b \in 1..Len(off)}

\* max(pop + offspring, key=fitness), the elite
Fittest(inds) == inds[MaxFitnessIndex(inds)]

\* a faulty variant: the first individual of the list is taken for the best
SelBestFirst(inds) == inds[1]

\* tools.selBest(pop + offspring, 1)[0]: a stable sort by descending fitness
SelBest(inds) == inds[MaxFitnessIndex(inds)]

\* a faulty variant: the elite is looked for among the offspring only
NewPopNoElite(survivors, oldpop, off) == Append(survivors, Fittest(off))

\* a faulty variant: the elite is looked for in the old population only
NewPopOldElite(survivors, oldpop, off) == Append(survivors, Fittest(oldpop))

\* pop[:] = new_pop + [fittest_inds]
NewPop(survivors, oldpop, off) == Append(survivors, Fittest(oldpop \o off))

\* it_stats['max']
StatsMax(inds) == SetMax({FitnessOf(inds[i]) : i \in 1..Len(inds)})

\* _update_best_individual, r being the fresh evaluation of new_ind
UpdateBestIndividual(i, new_ind, r) ==
    [it |-> i, score |-> r.value, shapelets |-> new_ind.shaps]

\* a faulty variant: the best record is also replaced on an equal maximum
FoundNewBestOrEqual(max, score) == max >= score

\* if it_stats['max'] > self.best['score']
FoundNewBest(max, score) == max > score

\* pop_star of _update_top_k: the archive's own entries, then clones of pop
PopStar(archive, population) ==
    archive \o [i \in 1..Len(population) |-> Clone(population[i])]

\* a faulty variant: a first rebuild is not taken for a change
CoverageChangedAfterFirst(coverage, previous) == previous # <<>> /\ coverage # previous

\* if not np.array_equal(coverage, self.top_k_coverage)
CoverageChanged(coverage, previous) == coverage # previous

\* a faulty variant: the tournament fills every slot of the population
SurvivorSlotsAll == PopSize

\* toolbox.select(offspring, self.population_size - 1)
SurvivorSlots == PopSize - 1

\* a faulty variant: the iteration counter is not advanced
NextItStay(i) == i

\* self.it += 1
NextIt(i) == i + 1

\* the archive holds the formatted entries (dicts) a finished fit left
ArchiveFormatted == top_k # <<>> /\ "uuid" \notin DOMAIN top_k[1]

\* self.top_k_coverage as _update_top_k compares with it: np.array([]) is
\* stored first when self.top_k is None
PreviousCoverage == IF top_k = <<>> THEN <<>> ELSE top_k_coverage

\* selection, elitism, statistics, best record, _update_top_k, self.it += 1.
\* On formatted entries max(pop_star, key=fitness) raises AttributeError: the
\* population, history and best record are already written then
SelectRebuild ==
    /\ pc = "eval" /\ idx > Len(invalid_ind)
    /\ \E w \in [1..SurvivorSlots -> Winners(offspring)] :
         LET survivors == [s \in 1..SurvivorSlots |-> offspring[w[s]]]
             newpop == NewPop(survivors, pop, offspring)
             max == StatsMax(newpop)
             best_ind == SelBest(newpop \o offspring)
             rebuilt == UpdateTopK(PopStar(top_k, newpop), k, coverage_alpha)
         IN /\ pop' = newpop
            /\ history' = Append(history, [it |-> it, max |-> max])
            /\ IF FoundNewBest(max, best.score)
               THEN \E r \in EvalResults(best_ind.shaps) :
                       /\ best' = UpdateBestIndividual(it, best_ind, r)
                       /\ memo' = Remember(best_ind.shaps, r)
                       /\ cache' = Cached(cache, best_ind.shaps)
               ELSE UNCHANGED <<best, memo, cache>>
            /\ IF ArchiveFormatted
               THEN /\ pc' = "raised"
                    /\ UNCHANGED <<last_top_k_change, unchanged, top_k_coverage, top_k, it>>
               ELSE /\ last_top_k_change' =
                         IF CoverageChanged(rebuilt.coverage, PreviousCoverage) THEN it
                         ELSE last_top_k_change
                    /\ unchanged' =
                         IF rebuilt.coverage = PreviousCoverage THEN unchanged + 1 ELSE 0
                    /\ top_k_coverage' = rebuilt.coverage
                    /\ top_k' = rebuilt.top_k
                    /\ it' = NextIt(it)
                    /\ pc' = "loop"
    /\ offspring' = <<>> /\ invalid_ind' = <<>> /\ tasks' = <<>>
    /\ shrinks' = 0 /\ startLen' = 0
    /\ UNCHANGED <<params, call, draws, idx, fit, is_fitted, nextUuid>>

\* _format_ind_topk, one entry: info gains the key coverage_weight (in place,
\* so the individual kept under "shaps" carries it too)
FormatInd(ind) ==
    LET info == [info |-> ind.info, coverage_weight |-> ind.coverage_weight]
    IN [shaps |-> [ind EXCEPT !.info = info], info |-> info,
        subgroup |-> ind.subgroup, coverage_weight |-> ind.coverage_weight]

\* the while condition fails or the early-stopping check breaks the loop; then
\* self.pop = pop; self._format_ind_topk(); self.is_fitted = True.  Iterating
\* over a top_k that is still None raises.  (best["shaps_undiffed"], a derived
\* copy of best["shapelets"], is left out.)  On entries that are formatted
\* already, ind.info raises AttributeError.
LoopExit ==
    /\ pc = "loop" /\ (it > iterations \/ EarlyStoppingCheck)
    /\ IF top_k = <<>> \/ ArchiveFormatted
       THEN pc' = "raised" /\ UNCHANGED <<is_fitted, top_k>>
       ELSE /\ top_k' = [i \in 1..Len(top_k) |-> FormatInd(top_k[i])]
            /\ pc' = "fitted" /\ is_fitted' = TRUE
    /\ UNCHANGED <<params, tasks, call, cache, draws, pop, offspring, invalid_ind, idx, fit, memo,
                   it, best, last_top_k_change, top_k_coverage, history, nextUuid,
                   shrinks, startLen, unchanged>>

\* ------------------------------------------------------- after the fit
\* no fit call is running: the engine can be called
Idle == pc \in {"constructed", "input_error", "raised", "fitted"}

\* the shapelets argument of transform: <<>> is None, <<s>> a set of the caller
ShapeletArgs == {<<>>, <<<<1, 2>>>>}

\* calculate_shapelet_dist_matrix(X, shapelets, return_positions, cache=None):
\* one distance column per shapelet, and one position column per shapelet
\* when positions are asked for
DistCols(shapelets) == [i \in 1..Len(shapelets) |-> <<"D", i - 1>>]
PosCols(shapelets) == [i \in 1..Len(shapelets) |-> <<"L", i - 1>>]

\* the outcome of transform(X, y, shapelets, return_positions, standardize)
TransformOutcome(arg, return_positions, standardize) ==
    LET call0 == [NoCall EXCEPT !.op = "transform",
                                !.return_positions = return_positions,
                                !.standardize = standardize]
        shapelets == IF arg = <<>> THEN best.shapelets ELSE arg[1]
        used == [call0 EXCEPT !.shapelets = shapelets]
        cols == DistCols(shapelets)
        \* data is bound only under return_positions
        data == IF return_positions THEN <<cols \o PosCols(shapelets)>> ELSE <<>>
    IN IF ~is_fitted
       THEN [call0 EXCEPT !.result = "error",
                          !.error = "AssertionError: Fit the gendis model first calling fit()"]
       ELSE IF Len(shapelets) = 0
       THEN [used EXCEPT !.result = "error", !.error = "AssertionError: No shapelets found"]
       ELSE IF standardize
       THEN [used EXCEPT !.result = "ndarray", !.cols = cols]
       ELSE IF data = <<>>
       THEN [used EXCEPT !.result = "error", !.error = "UnboundLocalError: data"]
       ELSE [used EXCEPT !.result = "DataFrame",
                         !.cols = Append(data[1], <<"in_subgroup", 0>>)]

\* transform: the distance service is called with cache=None, so self.cache
\* is left alone
Transform ==
    /\ Idle
    /\ \E arg \in ShapeletArgs, return_positions \in BOOLEAN, standardize \in BOOLEAN :
          out' = TransformOutcome(arg, return_positions, standardize)
    /\ UNCHANGED <<pc, params, tasks, min_length_series, cache, pop, offspring, invalid_ind, idx,
                   fit, memo, it, best, last_top_k_change, top_k, top_k_coverage, history,
                   is_fitted, nextUuid, draws, shrinks, startLen, unchanged>>

\* a faulty variant: get_subgroups does not look at is_fitted
GetSubgroupsUnchecked ==
    [NoCall EXCEPT !.op = "get_subgroups", !.return_positions = TRUE,
                   !.shapelets = best.shapelets, !.result = "indexes"]

\* the outcome of get_subgroups(X_diffed, y, shapelets): the argument is
\* overwritten by best["shapelets"]
GetSubgroupsOutcome ==
    LET call0 == [NoCall EXCEPT !.op = "get_subgroups", !.return_positions = TRUE]
    IN IF ~is_fitted
       THEN [call0 EXCEPT !.result = "error",
                          !.error = "AssertionError: Fit the gendis model first calling fit()"]
       ELSE [call0 EXCEPT !.shapelets = best.shapelets, !.result = "indexes"]

\* get_subgroups
GetSubgroups ==
    /\ Idle
    /\ out' = GetSubgroupsOutcome
    /\ UNCHANGED <<pc, params, tasks, min_length_series, cache, pop, offspring, invalid_ind, idx,
                   fit, memo, it, best, last_top_k_change, top_k, top_k_coverage, history,
                   is_fitted, nextUuid, draws, shrinks, startLen, unchanged>>

Next ==
    \/ FitStart
    \/ InitEvaluate
    \/ InitRepair
    \/ BeginLoop
    \/ Vary
    \/ Evaluate
    \/ Repair
    \/ SelectRebuild
    \/ LoopExit

\* one fit run, over the hyper-parameters of the search
Spec == Init /\ [][Next]_vars

\* the engine and its entry points: fit, transform and get_subgroups
ApiNext ==
    \/ FitStart
    \/ InitEvaluate
    \/ InitRepair
    \/ BeginLoop
    \/ Vary
    \/ Evaluate
    \/ Repair
    \/ SelectRebuild
    \/ LoopExit
    \/ Transform
    \/ GetSubgroups

ApiSpec == ApiInit /\ [][ApiNext]_vars

\* one fit run of an engine with a worker pool
PoolNext ==
    \/ FitStart
    \/ InitEvaluate
    \/ InitRepair
    \/ BeginLoop
    \/ Vary
    \/ PoolTake
    \/ PoolReturn
    \/ PoolJoin
    \/ Evaluate
    \/ Repair
    \/ SelectRebuild
    \/ LoopExit

PoolSpec == PoolInit /\ [][PoolNext]_vars

\* fit calls on one engine, one after the other
RefitNext ==
    \/ FitStart
    \/ Refit
    \/ InitEvaluate
    \/ InitRepair
    \/ BeginLoop
    \/ Vary
    \/ Evaluate
    \/ Repair
    \/ SelectRebuild
    \/ LoopExit

RefitSpec == RefitInit /\ [][RefitNext]_vars

\* ------------------------------------------------------------- properties
Min(a, b) == IF a < b THEN a ELSE b

\* the step that ends a generation: selection, elitism and the archive rebuild
Rebuilt == pc = "eval" /\ pc' = "loop"

\* the identity tokens of a list of individuals
Uuids(inds) == {inds[i].uuid : i \in 1..Len(inds)}

\* the individual the repair loop is working on
Cur == IF pc = "init_eval" THEN pop[idx] ELSE offspring[invalid_ind[idx]]

\* the loop variable fit holds an invalid result: another pass is due
InRepair == pc \in {"init_eval", "eval"} /\ fit # <<>>

\* C1: after every archive rebuild the archive holds min(k+1, number of
\* distinct uuids in the pool of previous archive and current population)
\* entries.
C1_ArchiveSize ==
    [][Rebuilt => Len(top_k') = Min(k + 1, Cardinality(Uuids(PopStar(top_k, pop'))))]_vars

\* the individual of an archive entry, formatted (after the fit) or not
ArchiveInd(e) == IF "uuid" \in DOMAIN e THEN e ELSE e.shaps

\* C2: no two entries of an archive snapshot carry the same uuid.
C2_UniqueUuids ==
    \A i, j \in 1..Len(top_k) : i # j => ArchiveInd(top_k[i]).uuid # ArchiveInd(top_k[j]).uuid

\* C3: after every rebuild the first archive entry has coverage_weight 1.0.
C3_ChampionWeightOne ==
    top_k # <<>> => top_k[1].coverage_weight = One

\* a step of the generation loop keeps or raises the score, and replaces the
\* best record only on a strictly greater population maximum
BestStep ==
    pc \in {"loop", "eval"} =>
        /\ best'.score >= best.score
        /\ (best' # best => StatsMax(pop') > best.score)

\* C4: within a fit run best['score'] starts at -infinity, never decreases,
\* and the best record is replaced only when the new population's maximum
\* fitness is strictly greater than the score it holds.
C4_BestScoreMonotone ==
    /\ [](pc = "loop" /\ it = 1 => best.score = NegInf)
    /\ [][BestStep]_vars

\* C4 witness: the best record was replaced in a generation after the first.
C4_Witness == pc = "loop" /\ best.it >= 2 /\ best.score > NegInf

SingletonsValid == \A c \in DOMAIN memo : Len(c) = 1 => memo[c].valid

\* C6: under a protocol that validates every single-shapelet set, a repair
\* loop takes at most len - 1 shrink steps (a pass that is still due is at
\* most the (len-1)th, each pass removes one shapelet), and every individual
\* the loop has passed holds the valid fitness, subgroup and info of its
\* shapelet set.
C6_RepairTerminates ==
    SingletonsValid =>
        /\ InRepair => /\ shrinks + 1 <= startLen - 1
                       /\ Len(Cur.shaps) = startLen - shrinks
        /\ shrinks <= IF startLen = 0 THEN 0 ELSE startLen - 1
        /\ pc = "init_eval" =>
              \A i \in 1..(idx - 1) :
                 /\ FitnessValid(pop[i]) /\ pop[i].subgroup # {}
                 /\ pop[i].info = pop[i].shaps
        /\ pc = "eval" =>
              \A p \in 1..(idx - 1) :
                 LET ind == offspring[invalid_ind[p]]
                 IN /\ FitnessValid(ind) /\ ind.subgroup # {}
                    /\ ind.info = ind.shaps

\* C6 witness: a repair loop has ended after at least one shrink step.
C6_Witness ==
    /\ SingletonsValid /\ pc = "eval" /\ fit = <<>> /\ idx > 1 /\ shrinks >= 1
    /\ Len(offspring[invalid_ind[idx - 1]].shaps) = startLen - shrinks

\* C7: once a single-shapelet individual is still invalid the repair loop does
\* not make another pass: the next step leaves the loop.
C7_FloorIsFatal ==
    [][InRepair /\ Len(Cur.shaps) = 1 => pc' \notin {"init_eval", "eval"}]_vars

\* a plain top-n-by-fitness selection over distinct uuids: the first candidate
\* of maximal fitness whose uuid is not taken, n times or until none is left
RECURSIVE PlainTopK(_, _, _)
PlainTopK(pool, taken, n) ==
    LET free == {i \in 1..Len(pool) : pool[i].uuid \notin taken}
    IN IF n = 0 \/ free = {} THEN <<>>
       ELSE LET b == CHOOSE i \in free :
                        /\ \A j \in free : FitnessOf(pool[j]) <= FitnessOf(pool[i])
                        /\ \A j \in free : j < i => FitnessOf(pool[j]) < FitnessOf(pool[i])
            IN <<[uuid |-> pool[b].uuid, fitness |-> pool[b].fitness]>>
                   \o PlainTopK(pool, taken \cup {pool[b].uuid}, n - 1)

\* a rebuild under coverage_alpha = 1 weighs every entry 1 and yields the
\* plain selection
PlainStep ==
    Rebuilt /\ coverage_alpha = One =>
        /\ \A i \in 1..Len(top_k') : top_k'[i].coverage_weight = One
        /\ [i \in 1..Len(top_k') |-> [uuid |-> top_k'[i].uuid, fitness |-> top_k'[i].fitness]]
              = PlainTopK(PopStar(top_k, pop'), {}, k + 1)

\* C8: with coverage_alpha = 1 every archive entry's coverage factor is 1 and
\* the rebuilt archive is the plain top-(k+1)-by-fitness selection over the
\* distinct uuids of the pool.
C8_AlphaOneIsPlainTopK == [][PlainStep]_vars

\* C9: with k = 0 the archive is one entry whose fitness is the maximum
\* fitness of the current population, and the coverage vector is all ones.
C9_KZeroSingleFittest ==
    k = 0 /\ top_k # <<>> =>
        /\ Len(top_k) = 1
        /\ FitnessOf(ArchiveInd(top_k[1])) = StatsMax(pop)
        /\ top_k_coverage = Ones

\* C9 witness: k = 0, two rebuilds done, and the second kept the first one's
\* archive entry although the population's last slot holds another individual.
C9_Witness ==
    /\ k = 0 /\ Len(history) >= 2 /\ Len(top_k) = 1
    /\ ArchiveInd(top_k[1]).uuid # pop[Len(pop)].uuid

\* the loop was left by the early-stopping break, not by the iteration cap
EarlyStopped == pc \in {"fitted", "raised"} /\ it <= iterations

FitRun == InitEvaluate \/ InitRepair \/ BeginLoop \/ Vary \/ Evaluate \/ Repair \/ LoopExit

\* the for loop over the invalid offspring is done: selection, elitism and
\* the archive rebuild are the next step
SelectDue == pc = "eval" /\ idx > Len(invalid_ind)

\* one fit call runs to its end: Python executes the steps of fit one after
\* the other, so a step of the running call that can be taken is taken, and
\* fit does not stay in front of the selection step forever
LiveSpec == Spec /\ WF_vars(FitRun) /\ []<>~SelectDue

\* fit has left the generation loop
LoopLeft == pc \in {"fitted", "raised"}

\* the generation loop is left only past the iteration cap or on the
\* early-stopping check
ExitStep == pc = "loop" /\ pc' \in {"fitted", "raised"} => it > iterations \/ EarlyStoppingCheck

\* C11: a fit run whose repair loops terminate leaves the generation loop
\* (unless a repair loop goes on forever), it completes at most `iterations`
\* generations, and it leaves the loop only because the iteration counter is
\* past `iterations` or the early-stopping check fires.
C11_LoopTerminates ==
    /\ [](pc \in {"loop", "eval"} => Len(history) <= iterations /\ Len(history) = it - 1)
    /\ [][ExitStep]_vars
    /\ (<>[]InRepair \/ [](pc \in {"loop", "eval"} => <>LoopLeft))

\* C11 witness: the loop was left by the iteration cap, after `iterations`
\* completed generations.
C11_Witness ==
    /\ pc = "fitted" /\ iterations > 0 /\ it > iterations
    /\ Len(history) = iterations /\ last_top_k_change > 1

\* ------------------------------------------------------ results and errors
\* the keys of a formatted archive entry
EntryKeys == {"shaps", "info", "subgroup", "coverage_weight"}

\* C12: whenever the generation loop exits, also before any generation was
\* completed (iterations = 0, or wait = 0), fit finishes normally and exposes
\* a best record, an archive whose entries each carry shaps, info, subgroup
\* and coverage_weight, and a history with one entry per completed generation.
C12_ExitExposesResults ==
    /\ pc # "raised"
    /\ pc = "fitted" =>
          /\ is_fitted
          /\ DOMAIN best = {"it", "score", "shapelets"}
          /\ \A i \in 1..Len(top_k) : DOMAIN top_k[i] = EntryKeys
          /\ Len(history) = it - 1

\* a call of fit returns or raises at its input check
FitCalled == pc \in {"constructed", "input_error", "raised"} /\ pc' \in {"init_eval", "input_error"}

\* fit raises exactly on a shortest series of length <= 4, and then leaves
\* population, cache, history, best record, archive and fitted flag alone
InputCheckStep ==
    FitCalled =>
        /\ pc' = "input_error" <=> min_length_series' <= 4
        /\ pc' = "input_error" =>
              /\ UNCHANGED <<pop, cache, history, best, top_k, is_fitted>>
              /\ ~is_fitted'

NotFitted == "AssertionError: Fit the gendis model first calling fit()"

\* the fitted flag is raised only by the step that ends a fit normally
FittedStep == ~is_fitted /\ is_fitted' => pc = "loop" /\ pc' = "fitted"

\* C15: transform or get_subgroups called while no fit call has completed
\* successfully (none made, or only calls that raised) fails with the
\* precondition error; the fitted flag becomes true only as the last step of
\* a successful fit.
C15_UnfittedCallsFail ==
    /\ [](is_fitted <=> pc = "fitted")
    /\ [](out.op # "none" /\ ~is_fitted => out.result = "error" /\ out.error = NotFitted)
    /\ [][FittedStep]_vars

\* C15 witness: transform was called after a fit call that raised, and failed
\* with the precondition error.
C15_Witness ==
    /\ pc = "raised" /\ out.op = "transform"
    /\ out.result = "error" /\ out.error = NotFitted

\* the table transform is to return for the shapelet set it used
Table(shapelets, return_positions) ==
    DistCols(shapelets) \o (IF return_positions THEN PosCols(shapelets) ELSE <<>>)
        \o << <<"in_subgroup", 0>> >>

\* a transform or get_subgroups call leaves the cache of the evolution alone
CacheUntouched == out' # out /\ out'.op # "none" => cache' = cache

\* C16: after a successful fit, transform returns, for return_positions
\* false as well as true, a table with one distance column per shapelet of
\* the best (or caller-supplied) set, position columns only when
\* return_positions is true, and a final in_subgroup column; the distance
\* cache of the evolution is not touched.
C16_TransformTable ==
    /\ [](is_fitted /\ out.op = "transform" /\ ~out.standardize =>
            /\ out.result = "DataFrame"
            /\ Len(out.shapelets) >= 1
            /\ out.cols = Table(out.shapelets, out.return_positions))
    /\ [][CacheUntouched]_vars

\* ---------------------------------------------- population and identity
\* the elitism of one generation: the last slot holds the maximum fitness of
\* the old population and the offspring, the population maximum does not drop
ElitismStep ==
    Rebuilt =>
        /\ FitnessOf(pop'[Len(pop')]) = StatsMax(pop \o offspring)
        /\ StatsMax(pop') >= StatsMax(pop)

\* C17: after every generation the last population slot holds an individual
\* whose fitness is the maximum over the pre-generation population together
\* with the offspring, so the maximum fitness of the population never
\* decreases from one generation to the next, whatever the tournament picks.
C17_EliteInLastSlot == [][ElitismStep]_vars

\* C17 witness: after two generations the elite in the last slot is strictly
\* fitter than the tournament survivor in front of it.
C17_Witness ==
    /\ pc = "loop" /\ Len(history) >= 2
    /\ FitnessOf(pop[Len(pop)]) > FitnessOf(pop[1])

\* one generation fills the population with PopSize - 1 members of its
\* offspring and one elite taken from the old population or the offspring
ReplaceStep ==
    Rebuilt =>
        /\ Len(pop') = PopSize
        /\ \A s \in 1..(PopSize - 1) : \E o \in 1..Len(offspring) : pop'[s] = offspring[o]
        /\ \E e \in 1..Len(pop \o offspring) : pop'[PopSize] = (pop \o offspring)[e]

\* C18: after initialization and after every generation the population holds
\* exactly population_size individuals: population_size - 1 tournament
\* survivors, each a member of this generation's offspring, followed by the
\* one elite.
C18_PopulationSize ==
    /\ [](pc \in {"init_eval", "loop", "eval", "fitted", "raised"} => Len(pop) = PopSize)
    /\ [](pc = "eval" => Len(offspring) = PopSize)
    /\ [][ReplaceStep]_vars

\* C18 witness: a generation is complete and its tournament survivor is an
\* offspring that was altered (it carries a token handed out after the
\* initial population).
C18_Witness ==
    /\ pc = "loop" /\ Len(history) >= 1 /\ Len(pop) = PopSize
    /\ pop[1].uuid > PopSize

\* the individuals of the population, the offspring buffer and the archive
Individuals ==
    pop \o offspring \o [i \in 1..Len(top_k) |-> ArchiveInd(top_k[i])]

VaryKeepsIdentity ==
    pc = "loop" /\ pc' = "eval" =>
        \A i \in 1..Len(pop) :
            /\ offspring'[i].shaps # pop[i].shaps => offspring'[i].uuid >= nextUuid
            /\ FitnessValid(offspring'[i]) =>
                   /\ offspring'[i].uuid = pop[i].uuid
                   /\ offspring'[i].shaps = pop[i].shaps

\* a repair pass that changes the content of an individual gives it a
\* fresh token
RepairKeepsIdentity ==
    InRepair /\ pc' = pc =>
        LET after == IF pc = "init_eval" THEN pop'[idx] ELSE offspring'[invalid_ind[idx]]
        IN after.shaps # Cur.shaps => after.uuid >= nextUuid

Evaluated(ind) ==
    /\ ind.shaps \in DOMAIN memo
    /\ memo[ind.shaps].valid
    /\ ind.fitness = <<memo[ind.shaps].value>>
    /\ ind.subgroup = memo[ind.shaps].subgroup
    /\ ind.info = memo[ind.shaps].info

\* the offspring the evaluation loop of this generation goes over
ToEvaluate == Range(invalid_ind)

\* crossover and mutation leave every altered offspring, and only offspring
\* with an invalid fitness, in the list to evaluate
VaryMarksAltered ==
    pc = "loop" /\ offspring' # <<>> =>
        \A i \in 1..Len(offspring') :
            /\ offspring'[i].shaps # pop[i].shaps => i \in Range(invalid_ind')
            /\ i \in Range(invalid_ind') <=> ~FitnessValid(offspring'[i])

\* C21: when selection, elitism and the archive rebuild of a generation run,
\* every offspring and every population member has a valid fitness, subgroup
\* and info that are the result of evaluating its current shapelet content:
\* every offspring altered by crossover or mutation is re-evaluated, only
\* offspring with an invalid fitness are evaluated, and an unaltered clone
\* keeps its parent's values.
C21_EvaluatedBeforeSelection ==
    /\ [](SelectDue => \A i \in 1..Len(pop \o offspring) : Evaluated((pop \o offspring)[i]))
    /\ [](pc = "eval" =>
            \A i \in 1..Len(offspring) : i \notin ToEvaluate => offspring[i] = pop[i])
    /\ [][VaryMarksAltered]_vars

\* C21 witness: selection is due in a later generation, one offspring was
\* altered and re-evaluated, another is an unaltered clone of its parent.
C21_Witness ==
    /\ SelectDue /\ Len(history) >= 1
    /\ \E i, j \in 1..Len(offspring) :
          /\ i \in ToEvaluate /\ offspring[i].shaps # pop[i].shaps
          /\ j \notin ToEvaluate /\ offspring[j] = pop[j]

\* ------------------------------------------------------------ worker pool
\* no worker holds or waits for a task
PoolQuiet == \A p \in 1..Len(tasks) : tasks[p].state = "done"

\* selection, elitism and the rebuild run with every task done and every
\* invalid offspring holding the result for its own shapelet set
BarrierStep ==
    Rebuilt =>
        /\ PoolQuiet /\ Len(tasks) = Len(invalid_ind)
        /\ \A i \in 1..Len(offspring) : Evaluated(offspring[i])

\* a generation starts with the rebuild of the one before it done
GenerationStep ==
    pc = "loop" /\ pc' = "map" => tasks = <<>> /\ Len(history) = it - 1

\* C22: with a worker pool (n_jobs > 1), under every interleaving of the
\* workers' evaluations, selection, elitism and the archive rebuild of
\* generation g start only after the results of all invalid offspring of
\* generation g have been written back, each offspring receives the result
\* of its own evaluation, and generation g+1 starts only after the rebuild
\* of generation g.
C22_PoolBarrier ==
    /\ [](n_jobs > 1)
    /\ [](pc # "map" => PoolQuiet)
    /\ [](pc = "eval" =>
            \A p \in 1..(idx - 1) : Evaluated(offspring[invalid_ind[p]]))
    /\ [][BarrierStep]_vars
    /\ [][GenerationStep]_vars

\* C22 witness: in a later generation two workers evaluate at once and the
\* second task is done before the first.
C22_Witness ==
    /\ pc = "map" /\ Len(history) >= 1 /\ Len(tasks) = 2
    /\ tasks[1].state = "running" /\ tasks[2].state = "done"

\* ------------------------------------------------- entries of the archive
\* the coverage vector after the subgroups of the first n entries were added
RECURSIVE CoverageAfter(_, _)
CoverageAfter(entries, n) ==
    IF n = 0 THEN Ones
    ELSE UpdateCoverage(entries[n].subgroup, CoverageAfter(entries, n - 1))

\* entry j of the archive (entry 1 being the champion) is a pool candidate of
\* the largest fitness x coverage factor among those whose uuid is not among
\* the entries before it, and carries that coverage factor
EntrySelected(archive, pool, alpha, j) ==
    LET cov == CoverageAfter(archive, j - 1)
        ids == {archive[i].uuid : i \in 1..(j - 1)}
        cands == {c \in 1..Len(pool) : pool[c].uuid \notin ids}
        score(c) == Scale(FitnessOf(pool[c]), CoverageFactor(alpha, cov, pool[c].subgroup))
    IN /\ archive[j].uuid \notin ids
       /\ archive[j].coverage_weight = CoverageFactor(alpha, cov, archive[j].subgroup)
       /\ \E c \in cands :
             /\ pool[c].uuid = archive[j].uuid
             /\ pool[c].shaps = archive[j].shaps
             /\ pool[c].fitness = archive[j].fitness
             /\ pool[c].subgroup = archive[j].subgroup
             /\ \A d \in cands : ~FracGT(score(d), score(c))

\* a rebuild fills the positions after the champion by weighted score
SelectionStep ==
    Rebuilt =>
        /\ Len(top_k') = k + 1
        /\ \A j \in 2..Len(top_k') :
              EntrySelected(top_k', PopStar(top_k, pop'), coverage_alpha, j)

\* C23: for each position j in 1..k of a rebuilt archive, entry j is the
\* pool candidate with the largest fitness x coverage_factor among the
\* candidates whose uuid is not yet in the archive being built, the
\* coverage_factor being computed from the coverage vector that starts at
\* all ones and was incremented once for the subgroup of each of the entries
\* 0..j-1; entry j's coverage_weight equals that coverage_factor.
C23_EntriesByWeightedScore == [][SelectionStep]_vars

\* ----------------------------------------------------- archive stability
\* the coverage vector the previous generation of this fit run stored: none
\* before the first rebuild of the run
StoredByPreviousGeneration == IF Len(history) = 0 THEN <<>> ELSE top_k_coverage

\* a rebuild sets last_top_k_change to the current iteration on a coverage
\* vector that differs from the stored one, and leaves it alone otherwise
ChangeStep ==
    Rebuilt =>
        /\ top_k_coverage' # StoredByPreviousGeneration => last_top_k_change' = it
        /\ top_k_coverage' = StoredByPreviousGeneration => last_top_k_change' = last_top_k_change
        /\ Len(history) = 0 => last_top_k_change' = it

\* C24: after the rebuild of generation `it`, last_top_k_change equals `it`
\* if the rebuild's final coverage vector differs from the one stored by the
\* previous generation's rebuild, and is left unchanged otherwise; the first
\* rebuild of a run always counts as a change.
C24_LastChangeTracksCoverage == [][ChangeStep]_vars

\* C24 witness: three rebuilds done, the second changed the coverage vector
\* and the third left it as it was.
C24_Witness ==
    /\ pc = "loop" /\ Len(history) = 3 /\ last_top_k_change = 2

\* ------------------------------------------------------ fitting once more
\* the first rebuild of a fit call is the next step
FirstRebuildDue == SelectDue /\ Len(history) = 0

\* C26: every call to fit, including a second call on an engine that was
\* already fitted, starts its first archive rebuild from an empty previous
\* archive and an empty previous coverage vector; the formatted archive
\* entries left by an earlier fit never enter the candidate pool.
C26_FitStartsFromEmptyArchive ==
    /\ FirstRebuildDue => top_k = <<>> /\ top_k_coverage = <<>>
    /\ SelectDue => ~ArchiveFormatted

\* ------------------------------------------------------------ best record
\* at least one generation of the running or finished fit call is complete
GenerationDone == pc \in {"loop", "eval", "fitted"} /\ Len(history) >= 1

\* C25: after every completed generation, with a deterministic fitness
\* protocol, best['score'] equals the maximum fitness of the current
\* population and the fitness of the archive's first entry, and best['it']
\* is the first generation in which that score was reached.
C25_BestIsPopulationMax ==
    GenerationDone =>
        /\ best.score = StatsMax(pop)
        /\ best.score = FitnessOf(ArchiveInd(top_k[1]))
        /\ best.score = memo[best.shapelets].value
        /\ best.it \in 1..Len(history)
        /\ history[best.it].it = best.it /\ history[best.it].max = best.score
        /\ \A g \in 1..(best.it - 1) : history[g].max < best.score

\* C25 witness: a fit of three generations has ended, the best score was
\* first reached in the second generation and is still the maximum.
C25_Witness ==
    /\ pc = "fitted" /\ Len(history) = 3 /\ best.it = 2
    /\ history[1].max < best.score /\ history[3].max = best.score

====
